---- MODULE Spec2Model ----
(***************************************************************************)
(* Model of the application propagator (scripts/handle_new_app.py and      *)
(* scripts/handle_new_apps.py) and of the template renderer                *)
(* (scripts/new_app.py).                                                   *)
(*                                                                         *)
(* Python values are modelled as follows.                                  *)
(*   str   : a TLA+ string when only compared, a sequence of one-character *)
(*           strings when it is rewritten (replace_variations)             *)
(*   dict  : a sequence of [k, v] pairs with pairwise distinct k, in       *)
(*           insertion order                                               *)
(*   list  : a sequence                                                    *)
(* A registry file is [shape, recs]: shape says what the top-level         *)
(* "applications" entry of the YAML document is.                           *)
(***************************************************************************)
EXTENDS Integers, Sequences, FiniteSets, TLC

\* ---------------------------------------------------------------- bounds
MaxApps == 2

MaxEnvs == 2

MaxChunks == 2

MaxDiffApps == 3

\* most new applications in one run of the loop taken on its own
MaxLoopApps == 2

\* ------------------------------------------------------- input alphabets
Missing == "<missing>"

AppNames == {"billing-svc", "sample-app", "my_app_name"}

EnvNames == {"dev", "staging"}

JiraRefs == {"OPS-1"}

Scripts == {"handle_new_app.py", "handle_new_apps.py"}

\* sequences over S of length at most n
RECURSIVE SeqsUpTo(_, _)
SeqsUpTo(S, n) ==
  IF n = 0 THEN {<<>>}
  ELSE LET shorter == SeqsUpTo(S, n - 1)
       IN shorter \cup {Append(s, x) : s \in {t \in shorter : Len(t) = n - 1}, x \in S}

Range(s) == {s[i] : i \in 1..Len(s)}

NoDup(s) == \A i, j \in 1..Len(s) : i # j => s[i] # s[j]

\* an application record; a field the YAML record does not carry is Missing
\* (has_envs = FALSE for the environment list)
EnvLists == {<<>>, <<"dev">>, <<"dev", "staging">>}

HeadRecords ==
  [app_name : AppNames \cup {Missing}, jira : {Missing}, jira_ticket : JiraRefs \cup {Missing},
   has_envs : {TRUE}, envs : EnvLists]
  \cup [app_name : AppNames \cup {Missing}, jira : {Missing}, jira_ticket : JiraRefs \cup {Missing},
        has_envs : {FALSE}, envs : {<<>>}]

BaseRecords ==
  [app_name : AppNames \cup {Missing}, jira : {Missing}, jira_ticket : {Missing},
   has_envs : {FALSE}, envs : {<<>>}]

\* the record of a mapping-shaped registry: the name is the key, not a field
Unnamed(r) == [r EXCEPT !.app_name = Missing]

\* registry documents: "list" = sequence of records, "dict" = mapping keyed
\* by name, "null" = `applications:` with no value, "absent" = no such key
ListFiles(Recs) == {[shape |-> "list", recs |-> s] : s \in SeqsUpTo(Recs, MaxApps)}

DictFiles(Recs) ==
  {[shape |-> "dict", recs |-> s] :
     s \in {t \in SeqsUpTo({r \in Recs : r.app_name # Missing}, MaxApps) :
              NoDup([i \in 1..Len(t) |-> t[i].app_name])}}

OtherFiles == {[shape |-> "null", recs |-> <<>>], [shape |-> "absent", recs |-> <<>>]}

NoFile == [shape |-> "nofile", recs |-> <<>>]

HeadFiles == ListFiles(HeadRecords) \cup DictFiles(HeadRecords) \cup OtherFiles

BaseFiles == ListFiles(BaseRecords) \cup DictFiles(BaseRecords) \cup OtherFiles

\* documents of up to MaxDiffApps records, for the diff taken on its own
DiffFiles ==
  {[shape |-> "list", recs |-> s] : s \in SeqsUpTo(BaseRecords, MaxDiffApps)}
  \cup {[shape |-> "dict", recs |-> s] :
          s \in {t \in SeqsUpTo({r \in BaseRecords : r.app_name # Missing}, MaxDiffApps) :
                   NoDup([i \in 1..Len(t) |-> t[i].app_name])}}
  \cup OtherFiles

\* ------------------------------------------------------------ Python dict
DictKeys(d) == [i \in 1..Len(d) |-> d[i].k]

DictHas(d, key) == \E i \in 1..Len(d) : d[i].k = key

DictGet(d, key) == d[CHOOSE i \in 1..Len(d) : d[i].k = key].v

\* d[key] = val: an existing key keeps its position and takes the new value
DictSet(d, key, val) ==
  IF DictHas(d, key)
  THEN [i \in 1..Len(d) |-> IF d[i].k = key THEN [k |-> key, v |-> val] ELSE d[i]]
  ELSE Append(d, [k |-> key, v |-> val])

\* ------------------------------------------------------- registry readers
\* the value of data.get("applications", default) for a registry document
PyList(s) == [t |-> "list", v |-> s]

PyDict(d) == [t |-> "dict", v |-> d]

PyNone == [t |-> "none", v |-> <<>>]

PyRaise(e) == [t |-> e, v |-> <<>>]

IsRaise(x) == x.t \notin {"list", "dict", "none"}

FileDict(f) == [i \in 1..Len(f.recs) |-> [k |-> f.recs[i].app_name, v |-> Unnamed(f.recs[i])]]

Applications(f, default) ==
  CASE f.shape = "list" -> PyList(f.recs)
    [] f.shape = "dict" -> PyDict(FileDict(f))
    [] f.shape = "null" -> PyNone
    [] OTHER -> default

\* {a["app_name"]: a for a in apps if "app_name" in a} over a list of records
RECURSIVE ByNameList(_, _)
ByNameList(recs, acc) ==
  IF recs = <<>> THEN acc
  ELSE ByNameList(Tail(recs),
                  IF Head(recs).app_name # Missing
                  THEN DictSet(acc, Head(recs).app_name, Head(recs))
                  ELSE acc)

\* "app_name" in key, for a key that is a string (substring test)
HasAppNameSubstring(key) == key = "my_app_name"

\* handle_new_app.py: load_apps_from_file returns the entry as it is
load_apps_from_file_v1(f) == Applications(f, PyList(<<>>))

\* handle_new_app.py: apps_by_name iterates whatever the reader returned; a
\* mapping iterates its keys (strings), so `"app_name" in a` is a substring
\* test and a["app_name"] on a string raises TypeError
apps_by_name_v1(apps) ==
  CASE apps.t = "list" -> PyDict(ByNameList(apps.v, <<>>))
    [] apps.t = "dict" ->
         IF \E i \in 1..Len(apps.v) : HasAppNameSubstring(apps.v[i].k)
         THEN PyRaise("TypeError")
         ELSE PyDict(<<>>)
    [] OTHER -> PyRaise("TypeError")

\* handle_new_apps.py: load_apps_from_file normalises both shapes
load_apps_from_file_v2(f) ==
  LET apps == Applications(f, PyDict(<<>>))
  IN CASE apps.t = "list" -> PyDict(ByNameList(apps.v, <<>>))
       [] apps.t = "dict" -> apps
       [] OTHER -> PyDict(<<>>)

\* handle_new_apps.py: apps_by_name is the identity
apps_by_name_v2(apps) == apps

LoadMap(scr, f) ==
  IF scr = "handle_new_app.py"
  THEN apps_by_name_v1(load_apps_from_file_v1(f))
  ELSE apps_by_name_v2(load_apps_from_file_v2(f))

\* [name for name in head_map.keys() if name not in base_map.keys()]
RECURSIVE FilterNew(_, _)
FilterNew(keys, base_map) ==
  IF keys = <<>> THEN <<>>
  ELSE IF DictHas(base_map, Head(keys))
       THEN FilterNew(Tail(keys), base_map)
       ELSE <<Head(keys)>> \o FilterNew(Tail(keys), base_map)

\* the diff with the membership test the wrong way round
NewAppNames_mut(head_m, base_m) ==
  SelectSeq(DictKeys(head_m), LAMBDA name : DictHas(base_m, name))

NewAppNames(head_m, base_m) == FilterNew(DictKeys(head_m), base_m)

\* ------------------------------------------------------------ renderer CLI
\* new_app.py's argument parser: -a/--app with one value and -e/--envs with
\* one or more values are required; anything else is a usage error (exit 2)
ArgparseOK(flag, envTokens) == flag = "-a" /\ Len(envTokens) >= 1

\* the flag each propagator passes the application name with
AppFlag(scr) == IF scr = "handle_new_app.py" THEN "-n" ELSE "-a"

\* ===================================================== propagator (main)
VARIABLES
  script,        \* which propagator runs
  pc,            \* position in main
  configExists,  \* config/apps.yaml is in the checkout
  headFile,      \* the registry document of the checkout
  baseRev,       \* the registry document at origin/<base>, or NoFile
  prNumber,      \* PR_NUMBER is set in the environment
  base_file,     \* the temporary apps_base.yaml
  base_map, head_map, new_app_names,
  app_idx,       \* index of the application the loop is at
  jira, envs_arg,
  created_prs,
  exitStatus,    \* NotExited while running
  failure,       \* what ended the run, "" when nothing did
  events         \* the external commands the run has issued, in order

NotExited == -1

pvars == <<script, pc, configExists, headFile, baseRev, prNumber, base_file, base_map,
           head_map, new_app_names, app_idx, jira, envs_arg, created_prs, exitStatus,
           failure, events>>

InitMain ==
  /\ script \in Scripts
  /\ pc = "start"
  /\ configExists \in BOOLEAN
  /\ headFile \in (IF configExists THEN HeadFiles ELSE {NoFile})
  /\ baseRev \in BaseFiles \cup {NoFile}
  /\ prNumber \in BOOLEAN
  /\ base_file = NoFile
  /\ base_map = <<>>
  /\ head_map = <<>>
  /\ new_app_names = <<>>
  /\ app_idx = 0
  /\ jira = ""
  /\ envs_arg = <<>>
  /\ created_prs = <<>>
  /\ exitStatus = NotExited
  /\ failure = ""
  /\ events = <<>>

\* the run ends: sys.exit(code), return from main (0) or an uncaught exception (1)
Exit(code, why) ==
  /\ pc' = "done"
  /\ exitStatus' = code
  /\ failure' = why

\* handle_new_apps.py: main reads args.app_id, an attribute the parser never
\* defined, before anything else is done; the AttributeError is not caught
Credential ==
  /\ pc = "start"
  /\ script = "handle_new_apps.py"
  /\ Exit(1, "AttributeError")
  /\ UNCHANGED <<script, configExists, headFile, baseRev, prNumber, base_file, base_map,
                 head_map, new_app_names, app_idx, jira, envs_arg, created_prs, events>>

\* handle_new_app.py: the registry of the checkout must exist
CheckConfig ==
  /\ pc = "start"
  /\ script = "handle_new_app.py"
  /\ IF ~configExists
     THEN Exit(1, "ConfigMissing")
     ELSE /\ pc' = "fetch"
          /\ UNCHANGED <<exitStatus, failure>>
  /\ UNCHANGED <<script, configExists, headFile, baseRev, prNumber, base_file, base_map,
                 head_map, new_app_names, app_idx, jira, envs_arg, created_prs, events>>

\* run("git fetch origin <base> --depth=1"): a failing command raises
FetchBase ==
  /\ pc = "fetch"
  /\ events' = Append(events, "fetch")
  /\ \E ok \in BOOLEAN :
       IF ok
       THEN /\ pc' = "show"
            /\ UNCHANGED <<exitStatus, failure>>
       ELSE Exit(1, "CalledProcessError")
  /\ UNCHANGED <<script, configExists, headFile, baseRev, prNumber, base_file, base_map,
                 head_map, new_app_names, app_idx, jira, envs_arg, created_prs>>

\* git show origin/<base>:config/apps.yaml into apps_base.yaml; when the
\* command fails the file is written as an empty list of applications
ShowBase ==
  /\ pc = "show"
  /\ events' = Append(events, "show")
  /\ base_file' = IF baseRev = NoFile THEN [shape |-> "list", recs |-> <<>>] ELSE baseRev
  /\ pc' = "load"
  /\ UNCHANGED <<script, configExists, headFile, baseRev, prNumber, base_map, head_map,
                 new_app_names, app_idx, jira, envs_arg, created_prs, exitStatus, failure>>

\* load both registries, key them by name and list the new names; with no
\* new name main returns
LoadAndDiff ==
  /\ pc = "load"
  /\ LET b == LoadMap(script, base_file)
         h == LoadMap(script, headFile)
     IN IF IsRaise(b) \/ IsRaise(h)
        THEN /\ Exit(1, IF IsRaise(b) THEN b.t ELSE h.t)
             /\ UNCHANGED <<base_map, head_map, new_app_names, app_idx>>
        ELSE /\ base_map' = b.v
             /\ head_map' = h.v
             /\ new_app_names' = NewAppNames(h.v, b.v)
             /\ IF NewAppNames(h.v, b.v) = <<>>
                THEN /\ Exit(0, "")
                     /\ UNCHANGED app_idx
                ELSE /\ pc' = "resolve"
                     /\ app_idx' = 1
                     /\ UNCHANGED <<exitStatus, failure>>
  /\ UNCHANGED <<script, configExists, headFile, baseRev, prNumber, base_file, jira,
                 envs_arg, created_prs, events>>

\* app.get("jira_ticket") or "no-jira" (handle_new_apps.py tries "jira" first)
ResolveJira(scr, app) ==
  IF scr = "handle_new_apps.py" /\ app.jira # Missing THEN app.jira
  ELSE IF app.jira_ticket # Missing THEN app.jira_ticket
  ELSE "no-jira"

\* " ".join(app.get("envs", [])) as the shell splits it: one token per name
ResolveEnvs(app) == IF app.has_envs THEN app.envs ELSE <<>>

Resolve ==
  /\ pc = "resolve"
  /\ LET app == DictGet(head_map, new_app_names[app_idx])
     IN /\ jira' = ResolveJira(script, app)
        /\ envs_arg' = ResolveEnvs(app)
  /\ pc' = "render"
  /\ UNCHANGED <<script, configExists, headFile, baseRev, prNumber, base_file, base_map,
                 head_map, new_app_names, app_idx, created_prs, exitStatus, failure, events>>

\* the renderer in the checkout, after `poetry install` when pyproject.toml
\* exists; a non-zero exit of either command raises CalledProcessError.
\* handle_new_app.py passes the name with -n, which new_app.py does not
\* accept, so its runs end here; "commit" is where a run would go on
RenderLocal ==
  /\ pc = "render"
  /\ \E pyproject \in BOOLEAN, installOk \in BOOLEAN, generateOk \in BOOLEAN :
       IF pyproject /\ ~installOk
       THEN /\ events' = Append(events, "poetry install")
            /\ Exit(1, "CalledProcessError")
       ELSE /\ events' = (IF pyproject THEN Append(events, "poetry install") ELSE events)
                           \o <<"renderer">>
            /\ IF ArgparseOK(AppFlag(script), envs_arg) /\ generateOk
               THEN /\ pc' = "commit"
                    /\ UNCHANGED <<exitStatus, failure>>
               ELSE Exit(1, "CalledProcessError")
  /\ UNCHANGED <<script, configExists, headFile, baseRev, prNumber, base_file, base_map,
                 head_map, new_app_names, app_idx, jira, envs_arg, created_prs>>

\* ------------------------------- handle_new_apps.py: the rest of the loop
VARIABLES
  GH_token,       \* the installation token main holds, "" when it has none
  githubToken,    \* GITHUB_TOKEN is set in the environment
  tmp_dirs,       \* the directories made with tempfile.mkdtemp() that exist
  infra_branches, \* branches pushed to the infra repository: <<jira, app_name>>
  infra_prs       \* pull requests opened on the infra repository, in order

lvars == <<GH_token, githubToken, tmp_dirs, infra_branches, infra_prs>>

LIdle ==
  /\ GH_token = ""
  /\ githubToken = FALSE
  /\ tmp_dirs = {}
  /\ infra_branches = {}
  /\ infra_prs = <<>>

AppName == new_app_names[app_idx]

\* f"new_app/{jira}/configure-{app_name}"
BranchName == <<jira, AppName>>

\* git add, git commit (a commit with nothing to commit fails and is passed
\* over), git push origin HEAD:<head_ref>
CommitPushLocal ==
  /\ pc = "commit"
  /\ \E changed \in BOOLEAN, pushOk \in BOOLEAN :
       /\ events' = events \o (IF changed THEN <<"commit">> ELSE <<>>) \o <<"push">>
       /\ IF pushOk
          THEN /\ pc' = "mktemp"
               /\ UNCHANGED <<exitStatus, failure>>
          ELSE Exit(1, "CalledProcessError")
  /\ UNCHANGED <<script, configExists, headFile, baseRev, prNumber, base_file, base_map,
                 head_map, new_app_names, app_idx, jira, envs_arg, created_prs>>
  /\ UNCHANGED lvars

MakeTemp_mut ==
  /\ pc = "mktemp"
  /\ tmp_dirs' = tmp_dirs \cup {AppName}
  /\ pc' = "clone"
  /\ UNCHANGED <<exitStatus, failure>>
  /\ UNCHANGED <<script, configExists, headFile, baseRev, prNumber, base_file, base_map,
                 head_map, new_app_names, app_idx, jira, envs_arg, created_prs, events>>
  /\ UNCHANGED <<GH_token, githubToken, infra_branches, infra_prs>>

\* tmp_infra = Path(tempfile.mkdtemp()), then the token test: without a
\* token the run exits with status 1
MakeTemp ==
  /\ pc = "mktemp"
  /\ tmp_dirs' = tmp_dirs \cup {AppName}
  /\ IF GH_token = ""
     THEN Exit(1, "MissingToken")
     ELSE /\ pc' = "clone"
          /\ UNCHANGED <<exitStatus, failure>>
  /\ UNCHANGED <<script, configExists, headFile, baseRev, prNumber, base_file, base_map,
                 head_map, new_app_names, app_idx, jira, envs_arg, created_prs, events>>
  /\ UNCHANGED <<GH_token, githubToken, infra_branches, infra_prs>>

\* git clone with the token, git config twice, git checkout -b <branch>
CloneInfra ==
  /\ pc = "clone"
  /\ events' = Append(events, "clone")
  /\ \E ok \in BOOLEAN :
       IF ok
       THEN /\ pc' = "render_infra"
            /\ UNCHANGED <<exitStatus, failure>>
       ELSE Exit(1, "CalledProcessError")
  /\ UNCHANGED <<script, configExists, headFile, baseRev, prNumber, base_file, base_map,
                 head_map, new_app_names, app_idx, jira, envs_arg, created_prs>>
  /\ UNCHANGED lvars

\* python scripts/new_app.py inside the clone: the script of the infra
\* repository, which may end with any status
RenderInfra ==
  /\ pc = "render_infra"
  /\ events' = Append(events, "renderer infra")
  /\ \E ok \in BOOLEAN :
       IF ok
       THEN /\ pc' = "commit_infra"
            /\ UNCHANGED <<exitStatus, failure>>
       ELSE Exit(1, "CalledProcessError")
  /\ UNCHANGED <<script, configExists, headFile, baseRev, prNumber, base_file, base_map,
                 head_map, new_app_names, app_idx, jira, envs_arg, created_prs>>
  /\ UNCHANGED lvars

\* git add, git commit (passed over when it fails), git push -u origin <branch>
CommitPushInfra ==
  /\ pc = "commit_infra"
  /\ \E changed \in BOOLEAN, pushOk \in BOOLEAN :
       /\ events' = events \o (IF changed THEN <<"commit infra">> ELSE <<>>)
                           \o <<"push infra">>
       /\ IF pushOk
          THEN /\ infra_branches' = infra_branches \cup {BranchName}
               /\ pc' = "pr"
               /\ UNCHANGED <<exitStatus, failure>>
          ELSE /\ Exit(1, "CalledProcessError")
               /\ UNCHANGED infra_branches
  /\ UNCHANGED <<script, configExists, headFile, baseRev, prNumber, base_file, base_map,
                 head_map, new_app_names, app_idx, jira, envs_arg, created_prs>>
  /\ UNCHANGED <<GH_token, githubToken, tmp_dirs, infra_prs>>

\* gh_pr_create: the first line of the output that starts with http:// or
\* https://, else the whole output stripped
PrReference(app, hasUrlLine) == <<app, IF hasUrlLine THEN "url" ELSE "output">>

AppendPr_mut(prs, ref) == <<[repo |-> "infra", pr |-> ref]>> \o prs

\* the list after created_prs.append((infra_repo_full, pr_url))
AppendPr(prs, ref) == Append(prs, [repo |-> "infra", pr |-> ref])

\* gh pr create; the pair is recorded and the loop goes to the next
\* application, or leaves for the comment
CreatePR ==
  /\ pc = "pr"
  /\ events' = Append(events, "pr create")
  /\ \E ok \in BOOLEAN, hasUrlLine \in BOOLEAN :
       IF ok
       THEN /\ infra_prs' = Append(infra_prs, BranchName)
            /\ created_prs' = AppendPr(created_prs, PrReference(AppName, hasUrlLine))
            /\ IF app_idx < Len(new_app_names)
               THEN /\ app_idx' = app_idx + 1
                    /\ pc' = "resolve"
               ELSE /\ pc' = "comment"
                    /\ UNCHANGED app_idx
            /\ UNCHANGED <<exitStatus, failure>>
       ELSE /\ Exit(1, "CalledProcessError")
            /\ UNCHANGED <<infra_prs, created_prs, app_idx>>
  /\ UNCHANGED <<script, configExists, headFile, baseRev, prNumber, base_file, base_map,
                 head_map, new_app_names, jira, envs_arg>>
  /\ UNCHANGED <<GH_token, githubToken, tmp_dirs, infra_branches>>

\* after the loop: without PR_NUMBER the comment is skipped; gh_pr_comment
\* raises RuntimeError without GITHUB_TOKEN, else runs gh pr comment
PostComment ==
  /\ pc = "comment"
  /\ IF ~prNumber
     THEN /\ Exit(0, "")
          /\ UNCHANGED events
     ELSE IF ~githubToken
     THEN /\ Exit(1, "RuntimeError")
          /\ UNCHANGED events
     ELSE /\ events' = Append(events, "comment")
          /\ \E ok \in BOOLEAN :
               IF ok THEN Exit(0, "") ELSE Exit(1, "CalledProcessError")
  /\ UNCHANGED <<script, configExists, headFile, baseRev, prNumber, base_file, base_map,
                 head_map, new_app_names, app_idx, jira, envs_arg, created_prs>>
  /\ UNCHANGED lvars

\* ================================================== renderer (new_app.py)
\* text is a sequence of one-character strings
Lowers == <<"a", "b", "c", "d", "e", "f", "g", "h", "i", "j", "k", "l", "m", "n", "o", "p", "q", "r", "s", "t", "u", "v", "w", "x", "y", "z">>

Uppers == <<"A", "B", "C", "D", "E", "F", "G", "H", "I", "J", "K", "L", "M", "N", "O", "P", "Q", "R", "S", "T", "U", "V", "W", "X", "Y", "Z">>

IsLower(c) == \E i \in 1..Len(Lowers) : Lowers[i] = c

IsUpper(c) == \E i \in 1..Len(Uppers) : Uppers[i] = c

IsCased(c) == IsLower(c) \/ IsUpper(c)

UpperChar(c) == IF IsLower(c) THEN Uppers[CHOOSE i \in 1..Len(Lowers) : Lowers[i] = c] ELSE c

LowerChar(c) == IF IsUpper(c) THEN Lowers[CHOOSE i \in 1..Len(Uppers) : Uppers[i] = c] ELSE c

\* str.lower, str.upper
Lower(s) == [i \in 1..Len(s) |-> LowerChar(s[i])]

Upper(s) == [i \in 1..Len(s) |-> UpperChar(s[i])]

\* str.title: a cased character is upper-cased when the character before it
\* is not cased (or there is none) and lower-cased otherwise
Title(s) ==
  [i \in 1..Len(s) |->
     IF i > 1 /\ IsCased(s[i - 1]) THEN LowerChar(s[i]) ELSE UpperChar(s[i])]

\* str.replace(a, b) for single characters a, b
ReplaceChar(s, a, b) == [i \in 1..Len(s) |-> IF s[i] = a THEN b ELSE s[i]]

BASE_APP == <<"t", "e", "s", "t", "-", "o", "n", "e">>

MatchAt(pat, text, i) ==
  /\ i + Len(pat) - 1 <= Len(text)
  /\ \A j \in 1..Len(pat) : text[i + j - 1] = pat[j]

\* re.sub(o, n, text) for a pattern without metacharacters and a replacement
\* without backslashes: the leftmost match from position i on is replaced,
\* the scan resumes after it, and replaced text is not scanned again
RECURSIVE ReSubFrom(_, _, _, _)
ReSubFrom(o, n, text, i) ==
  IF i > Len(text) THEN <<>>
  ELSE IF MatchAt(o, text, i)
       THEN n \o ReSubFrom(o, n, text, i + Len(o))
       ELSE <<text[i]>> \o ReSubFrom(o, n, text, i + 1)

ReSub(o, n, text) == ReSubFrom(o, n, text, 1)

\* the variations with the underscore form built from the hyphenated name
Variations_mut(old, new) ==
  DictSet(
    DictSet(
      DictSet(
        DictSet(<<>>, Lower(old), Lower(new)),
        ReplaceChar(Upper(old), "-", "_"), Upper(new)),
      Title(old), Title(new)),
    Upper(old), Upper(new))

\* the dict literal of replace_variations: four keys in this order (a key
\* that repeats keeps its first position and takes the later value)
Variations(old, new) ==
  DictSet(
    DictSet(
      DictSet(
        DictSet(<<>>, Lower(old), Lower(new)),
        ReplaceChar(Upper(old), "-", "_"), ReplaceChar(Upper(new), "-", "_")),
      ReplaceChar(Title(old), "-", "-"), ReplaceChar(Title(new), "-", "-")),
    Upper(old), Upper(new))

\* for o, n in variations.items(): text = re.sub(o, n, text)
RECURSIVE ApplyVariations(_, _)
ApplyVariations(vs, text) ==
  IF vs = <<>> THEN text
  ELSE ApplyVariations(Tail(vs), ReSub(Head(vs).k, Head(vs).v, text))

replace_variations(text, old, new) == ApplyVariations(Variations(old, new), text)

\* ---------------------------------------- replace_variations, step by step
VARIABLES
  w_pc,          \* position in replace_variations
  w_in,          \* the text the call was given
  w_new,         \* the target name
  w_text,        \* the local `text`
  w_items        \* the items of `variations` the loop has not visited yet

wvars == <<w_pc, w_in, w_new, w_text, w_items>>

\* inputs: texts made of at most MaxChunks pieces, some of them variants of
\* the template identifier, some parts of one, some unrelated
Chunks == {<<"t", "e", "s", "t", "-", "o", "n", "e">>,
           <<"T", "E", "S", "T", "_", "O", "N", "E">>,
           <<"T", "e", "s", "t", "-", "O", "n", "e">>,
           <<"T", "E", "S", "T", "-", "O", "N", "E">>,
           <<"_", "P", "O", "R", "T">>,
           <<" ", "S", "e", "r", "v", "i", "c", "e">>,
           <<"T", "E", "S", "T", "-", "O", "N">>,
           <<"s", "t", "-", "o">>}

Targets == {<<"b", "i", "l", "l", "i", "n", "g", "-", "s", "v", "c">>,
            <<"e">>,
            <<"T", "e", "s", "t", "-", "O", "n", "e", "-", "2">>}

RECURSIVE Concat(_)
Concat(p) == IF p = <<>> THEN <<>> ELSE Head(p) \o Concat(Tail(p))

Texts == {Concat(p) : p \in SeqsUpTo(Chunks, MaxChunks)}

WIdle ==
  /\ w_pc = "idle"
  /\ w_in = <<>>
  /\ w_new = <<>>
  /\ w_text = <<>>
  /\ w_items = <<>>

InitRewrite ==
  /\ w_pc = "build"
  /\ w_in \in Texts
  /\ w_new \in Targets
  /\ w_text = w_in
  /\ w_items = <<>>

BuildVariations ==
  /\ w_pc = "build"
  /\ w_items' = Variations(BASE_APP, w_new)
  /\ w_pc' = "loop"
  /\ UNCHANGED <<w_in, w_new, w_text>>

SubStep ==
  /\ w_pc = "loop"
  /\ w_items # <<>>
  /\ w_text' = ReSub(Head(w_items).k, Head(w_items).v, w_text)
  /\ w_items' = Tail(w_items)
  /\ UNCHANGED <<w_pc, w_in, w_new>>

ReturnText ==
  /\ w_pc = "loop"
  /\ w_items = <<>>
  /\ w_pc' = "returned"
  /\ UNCHANGED <<w_in, w_new, w_text, w_items>>

\* ------------------------------------------------ new_app.py as a program
VARIABLES
  r_pc,          \* position in __main__ / generate_app
  r_flag,        \* the option the application name is passed with
  r_app,         \* the application name
  r_envs,        \* the values after -e
  r_i,           \* index of the environment the loop is at
  baseDir,       \* ../applications/test-one exists
  tmpl,          \* names of the files in the template directory
  tgtExists,     \* ../applications/<app> exists
  tgt,           \* the files of the target directory: [name, content]
  r_written,     \* names of the files this run wrote
  r_notices,     \* environments skipped with a notice, in order
  r_exit,        \* exit status, NotExited while running
  r_err          \* the error that ended the run, "" when none did

rvars == <<r_pc, r_flag, r_app, r_envs, r_i, baseDir, tmpl, tgtExists, tgt, r_written,
           r_notices, r_exit, r_err>>

MainPy == <<"main.py">>

ValuesYaml == <<"values.yaml">>

\* f"values-{env}.yaml"
Overlay(env) == <<"values-", env, ".yaml">>

TemplateFiles == {MainPy, ValuesYaml} \cup {Overlay(e) : e \in EnvNames}

\* what the files of the template hold
TemplateContent(name) ==
  IF name = MainPy THEN <<"T", "e", "s", "t", "-", "O", "n", "e", " ", "S", "e", "r", "v", "i", "c", "e">>
  ELSE IF name = ValuesYaml THEN <<"T", "E", "S", "T", "_", "O", "N", "E", "_", "P", "O", "R", "T">>
  ELSE <<"t", "e", "s", "t", "-", "o", "n", "e">>

StaleContent == <<"o", "l", "d">>

RIdle ==
  /\ r_pc = "idle"
  /\ r_flag = ""
  /\ r_app = <<>>
  /\ r_envs = <<>>
  /\ r_i = 0
  /\ baseDir = FALSE
  /\ tmpl = {}
  /\ tgtExists = FALSE
  /\ tgt = {}
  /\ r_written = {}
  /\ r_notices = <<>>
  /\ r_exit = NotExited
  /\ r_err = ""

\* the renderer is entered through its command line (-a as handle_new_apps.py
\* passes the name, -n as handle_new_app.py does) or by calling generate_app
InitRender ==
  /\ r_pc \in {"parse", "check"}
  /\ r_flag \in (IF r_pc = "parse" THEN {"-a", "-n"} ELSE {"call"})
  /\ r_app \in Targets
  /\ r_envs \in SeqsUpTo(EnvNames, MaxEnvs)
  /\ r_i = 0
  /\ baseDir \in BOOLEAN
  /\ tmpl \in (IF baseDir THEN SUBSET TemplateFiles ELSE {{}})
  /\ tgtExists \in BOOLEAN
  /\ tgt \in (IF tgtExists
              THEN {{}, {[name |-> Overlay("staging"), content |-> StaleContent]}}
              ELSE {{}})
  /\ r_written = {}
  /\ r_notices = <<>>
  /\ r_exit = NotExited
  /\ r_err = ""

RExit(code, why) ==
  /\ r_pc' = "done"
  /\ r_exit' = code
  /\ r_err' = why

\* parser.parse_args(): a usage error prints the usage and exits with 2
ParseArgs ==
  /\ r_pc = "parse"
  /\ IF ArgparseOK(r_flag, r_envs)
     THEN /\ r_pc' = "check"
          /\ UNCHANGED <<r_exit, r_err>>
     ELSE RExit(2, "usage")
  /\ UNCHANGED <<r_flag, r_app, r_envs, r_i, baseDir, tmpl, tgtExists, tgt, r_written,
                 r_notices>>

\* with open(dest, "w"): the file is created or overwritten
WriteFile(dir, name, content) ==
  {f \in dir : f.name # name} \cup {[name |-> name, content |-> content]}

\* copy_and_replace(src, dest, BASE_APP, app_name)
copy_and_replace(dir, name, new) ==
  WriteFile(dir, name, replace_variations(TemplateContent(name), BASE_APP, new))

\* generate_app creating the target directory before it looks for the template
CheckBase_mut ==
  /\ r_pc = "check"
  /\ tgtExists' = TRUE
  /\ IF ~baseDir
     THEN RExit(1, "FileNotFoundError")
     ELSE /\ r_pc' = "main"
          /\ UNCHANGED <<r_exit, r_err>>
  /\ UNCHANGED <<r_flag, r_app, r_envs, r_i, baseDir, tmpl, tgt, r_written, r_notices>>

\* generate_app: the template directory must exist; the target directory is
\* created when absent
CheckBase ==
  /\ r_pc = "check"
  /\ IF ~baseDir
     THEN /\ RExit(1, "FileNotFoundError")
          /\ UNCHANGED tgtExists
     ELSE /\ tgtExists' = TRUE
          /\ r_pc' = "main"
          /\ UNCHANGED <<r_exit, r_err>>
  /\ UNCHANGED <<r_flag, r_app, r_envs, r_i, baseDir, tmpl, tgt, r_written, r_notices>>

\* copy main.py, then values.yaml; opening a template file that does not
\* exist raises FileNotFoundError
CopyFixed(at, name, next) ==
  /\ r_pc = at
  /\ IF name \in tmpl
     THEN /\ tgt' = copy_and_replace(tgt, name, r_app)
          /\ r_written' = r_written \cup {name}
          /\ r_pc' = next
          /\ UNCHANGED <<r_exit, r_err>>
     ELSE /\ RExit(1, "FileNotFoundError")
          /\ UNCHANGED <<tgt, r_written>>
  /\ r_i' = 1
  /\ UNCHANGED <<r_flag, r_app, r_envs, baseDir, tmpl, tgtExists, r_notices>>

CopyMain == CopyFixed("main", MainPy, "values")

CopyValues == CopyFixed("values", ValuesYaml, "envs")

\* the loop copying every requested overlay without looking for it first
CopyEnv_mut ==
  /\ r_pc = "envs"
  /\ r_i <= Len(r_envs)
  /\ IF Overlay(r_envs[r_i]) \in tmpl
     THEN /\ tgt' = copy_and_replace(tgt, Overlay(r_envs[r_i]), r_app)
          /\ r_written' = r_written \cup {Overlay(r_envs[r_i])}
          /\ r_i' = r_i + 1
          /\ UNCHANGED <<r_pc, r_exit, r_err>>
     ELSE /\ RExit(1, "FileNotFoundError")
          /\ UNCHANGED <<tgt, r_written, r_i>>
  /\ UNCHANGED <<r_flag, r_app, r_envs, baseDir, tmpl, tgtExists, r_notices>>

\* for env in envs: copy the overlay when the template has it, else print
\* the skip notice
CopyEnv ==
  /\ r_pc = "envs"
  /\ r_i <= Len(r_envs)
  /\ IF Overlay(r_envs[r_i]) \in tmpl
     THEN /\ tgt' = copy_and_replace(tgt, Overlay(r_envs[r_i]), r_app)
          /\ r_written' = r_written \cup {Overlay(r_envs[r_i])}
          /\ UNCHANGED r_notices
     ELSE /\ r_notices' = Append(r_notices, r_envs[r_i])
          /\ UNCHANGED <<tgt, r_written>>
  /\ r_i' = r_i + 1
  /\ UNCHANGED <<r_pc, r_flag, r_app, r_envs, baseDir, tmpl, tgtExists, r_exit, r_err>>

\* the loop is over: print the summary; the script ends with status 0
Generated ==
  /\ r_pc = "envs"
  /\ r_i > Len(r_envs)
  /\ RExit(0, "")
  /\ UNCHANGED <<r_flag, r_app, r_envs, r_i, baseDir, tmpl, tgtExists, tgt, r_written,
                 r_notices>>

\* ======================================================== specifications
vars == <<pvars, lvars, rvars, wvars>>

Init == InitMain /\ LIdle /\ RIdle /\ WIdle

Next ==
  \/ Credential /\ UNCHANGED <<lvars, rvars, wvars>>
  \/ CheckConfig /\ UNCHANGED <<lvars, rvars, wvars>>
  \/ FetchBase /\ UNCHANGED <<lvars, rvars, wvars>>
  \/ ShowBase /\ UNCHANGED <<lvars, rvars, wvars>>
  \/ LoadAndDiff /\ UNCHANGED <<lvars, rvars, wvars>>
  \/ Resolve /\ UNCHANGED <<lvars, rvars, wvars>>
  \/ RenderLocal /\ UNCHANGED <<lvars, rvars, wvars>>

Spec == Init /\ [][Next]_vars

\* the diff of main (load both documents, key by name, list the new names)
\* applied to any pair of registry documents, for either script
InitDiff ==
  /\ script \in Scripts
  /\ pc = "load"
  /\ configExists = TRUE
  /\ headFile \in DiffFiles
  /\ base_file \in DiffFiles
  /\ baseRev = base_file
  /\ prNumber = TRUE
  /\ base_map = <<>>
  /\ head_map = <<>>
  /\ new_app_names = <<>>
  /\ app_idx = 0
  /\ jira = ""
  /\ envs_arg = <<>>
  /\ created_prs = <<>>
  /\ exitStatus = NotExited
  /\ failure = ""
  /\ events = <<"fetch", "show">>
  /\ LIdle
  /\ RIdle
  /\ WIdle

NextDiff == LoadAndDiff /\ UNCHANGED <<lvars, rvars, wvars>>

SpecDiff == InitDiff /\ [][NextDiff]_vars

MainIdle ==
  /\ script = "handle_new_apps.py"
  /\ pc = "idle"
  /\ configExists = FALSE
  /\ headFile = NoFile
  /\ baseRev = NoFile
  /\ prNumber = FALSE
  /\ base_file = NoFile
  /\ base_map = <<>>
  /\ head_map = <<>>
  /\ new_app_names = <<>>
  /\ app_idx = 0
  /\ jira = ""
  /\ envs_arg = <<>>
  /\ created_prs = <<>>
  /\ exitStatus = NotExited
  /\ failure = ""
  /\ events = <<>>

NextRender ==
  \/ ParseArgs /\ UNCHANGED <<pvars, lvars, wvars>>
  \/ CheckBase /\ UNCHANGED <<pvars, lvars, wvars>>
  \/ CopyMain /\ UNCHANGED <<pvars, lvars, wvars>>
  \/ CopyValues /\ UNCHANGED <<pvars, lvars, wvars>>
  \/ CopyEnv /\ UNCHANGED <<pvars, lvars, wvars>>
  \/ Generated /\ UNCHANGED <<pvars, lvars, wvars>>

RenderInit == InitRender /\ MainIdle /\ LIdle /\ WIdle

SpecRender == RenderInit /\ [][NextRender]_vars

NextRewrite ==
  \/ BuildVariations /\ UNCHANGED <<pvars, lvars, rvars>>
  \/ SubStep /\ UNCHANGED <<pvars, lvars, rvars>>
  \/ ReturnText /\ UNCHANGED <<pvars, lvars, rvars>>

RewriteInit == InitRewrite /\ MainIdle /\ LIdle /\ RIdle

SpecRewrite == RewriteInit /\ [][NextRewrite]_vars

\* the records and registries of the loop taken on its own
LoopRecords ==
  {r \in HeadRecords : /\ r.app_name # Missing
                       /\ r.envs \in {<<>>, <<"dev">>}
                       /\ (r.has_envs => r.envs # <<>>)}

LoopFiles ==
  {[shape |-> "list", recs |-> s] :
     s \in {t \in SeqsUpTo(LoopRecords, MaxLoopApps) :
              /\ Len(t) >= 1
              /\ NoDup([i \in 1..Len(t) |-> t[i].app_name])}}

\* main of handle_new_apps.py on entering its loop over new_app_names with
\* the statements before the loop completed: the token is what
\* get_installation_token returned, the base revision has no registry
InitLoop ==
  /\ script = "handle_new_apps.py"
  /\ pc = "resolve"
  /\ configExists = TRUE
  /\ headFile \in LoopFiles
  /\ baseRev = NoFile
  /\ prNumber \in BOOLEAN
  /\ base_file = [shape |-> "list", recs |-> <<>>]
  /\ base_map = <<>>
  /\ head_map = LoadMap(script, headFile).v
  /\ new_app_names = NewAppNames(head_map, base_map)
  /\ app_idx = 1
  /\ jira = ""
  /\ envs_arg = <<>>
  /\ created_prs = <<>>
  /\ exitStatus = NotExited
  /\ failure = ""
  /\ events = <<"credential", "fetch", "show">>
  /\ GH_token \in {"", "token"}
  /\ githubToken \in BOOLEAN
  /\ tmp_dirs = {}
  /\ infra_branches = {}
  /\ infra_prs = <<>>
  /\ RIdle
  /\ WIdle

NextLoop ==
  \/ Resolve /\ UNCHANGED <<lvars, rvars, wvars>>
  \/ RenderLocal /\ UNCHANGED <<lvars, rvars, wvars>>
  \/ CommitPushLocal /\ UNCHANGED <<rvars, wvars>>
  \/ MakeTemp /\ UNCHANGED <<rvars, wvars>>
  \/ CloneInfra /\ UNCHANGED <<rvars, wvars>>
  \/ RenderInfra /\ UNCHANGED <<rvars, wvars>>
  \/ CommitPushInfra /\ UNCHANGED <<rvars, wvars>>
  \/ CreatePR /\ UNCHANGED <<rvars, wvars>>
  \/ PostComment /\ UNCHANGED <<rvars, wvars>>

SpecLoop == InitLoop /\ [][NextLoop]_vars


\* ================================================================ claims
\* the names a registry document declares, in document order
RECURSIVE FirstOccurrences(_, _)
FirstOccurrences(names, seen) ==
  IF names = <<>> THEN <<>>
  ELSE IF Head(names) = Missing \/ Head(names) \in seen
       THEN FirstOccurrences(Tail(names), seen)
       ELSE <<Head(names)>> \o FirstOccurrences(Tail(names), seen \cup {Head(names)})

RegistryNames(f) ==
  IF f.shape \in {"list", "dict"}
  THEN FirstOccurrences([i \in 1..Len(f.recs) |-> f.recs[i].app_name], {})
  ELSE <<>>

\* the base registry of a run: empty when the snapshot cannot be obtained
BaseRegistryNames == RegistryNames(baseRev)

SameKeys == Range(RegistryNames(headFile)) = Range(BaseRegistryNames)

NewSetNonEmpty == Range(RegistryNames(headFile)) \ Range(BaseRegistryNames) # {}

Count(kind) == Cardinality({i \in 1..Len(events) : events[i] = kind})

\* a command outside the repository failed: the fetch or the package install
ExternalFailure ==
  /\ failure = "CalledProcessError"
  /\ events # <<>>
  /\ events[Len(events)] \in {"fetch", "poetry install"}

IndexOf(seq, x) == CHOOSE i \in 1..Len(seq) : seq[i] = x

\* the diff has been taken
DiffTaken == pc \in {"resolve", "render", "commit"} \/ (pc = "done" /\ exitStatus = 0)

SideEffectKinds ==
  {"poetry install", "renderer", "commit", "push", "clone", "credential", "pr create",
   "comment"}

\* C2: with the same keys in the base and the head registry the run ends
\* with exit status 0 and has issued no renderer invocation, commit, push,
\* clone, credential exchange, pull-request creation or comment call.
C2_NoNewAppsNoSideEffects ==
  (pc = "done" /\ configExists /\ SameKeys /\ ~ExternalFailure) =>
    /\ exitStatus = 0
    /\ \A i \in 1..Len(events) : events[i] \notin SideEffectKinds

\* C4: a run over an application that is new in the head registry, the first
\* run or a repetition of it, ends with exit status 0 having reached the
\* pull-request creation, with at most one commit per repository.
C4_RerunCompletes ==
  (pc = "done" /\ configExists /\ NewSetNonEmpty /\ ~ExternalFailure) =>
    /\ exitStatus = 0
    /\ Count("pr create") >= 1
    /\ Count("commit") <= 2 * Len(new_app_names)

\* C7: the reader accepts a registry written as a sequence of records and
\* one written as a mapping keyed by name: neither makes the run fail, and
\* the loaded mapping has the names the document declares, so the
\* new-application set does not depend on the shape.
C7_BothShapesAccepted ==
  /\ (failure = "TypeError" =>
        \/ headFile.shape \notin {"list", "dict"}
        \/ base_file.shape \notin {"list", "dict"})
  /\ DiffTaken =>
       /\ DictKeys(head_map) = RegistryNames(headFile)
       /\ DictKeys(base_map) = RegistryNames(base_file)

\* C8: without config/apps.yaml in the checkout the run ends at once with a
\* non-zero exit status, reports the missing registry and has issued no
\* command.
C8_MissingRegistryAborts ==
  (pc = "done" /\ ~configExists) =>
    /\ exitStatus # 0
    /\ failure = "ConfigMissing"
    /\ events = <<>>

\* C9: when the base snapshot cannot be obtained the run does not fail: the
\* base registry is taken as empty and every application of the head
\* registry is new and processed.
C9_UnobtainableBaseIsEmpty ==
  (pc = "done" /\ configExists /\ baseRev = NoFile /\ ~ExternalFailure) =>
    /\ exitStatus = 0
    /\ base_map = <<>>
    /\ Range(new_app_names) = Range(RegistryNames(headFile))

\* C10: in a run with new applications the comment call happens at most
\* once and only after the last application was processed; without the
\* pull-request number it is skipped and the run still ends with status 0.
C10_SingleCommentAfterAll ==
  (pc = "done" /\ configExists /\ NewSetNonEmpty /\ ~ExternalFailure) =>
    /\ Count("comment") <= 1
    /\ Count("comment") = 1 =>
         /\ events[Len(events)] = "comment"
         /\ Len(created_prs) = Len(new_app_names)
    /\ ~prNumber => (Count("comment") = 0 /\ exitStatus = 0)

\* C3: the renderer invoked for an application with an empty environment
\* list, as the propagator invokes it (-a <name> -e and no value), completes
\* with status 0, so that the run can go on to commit, push and pull request.
C3_EmptyEnvsRenders ==
  (r_pc = "done" /\ r_flag = "-a" /\ r_envs = <<>> /\ baseDir
     /\ {MainPy, ValuesYaml} \subseteq tmpl) =>
    r_exit = 0

\* the four written forms of the template identifier, in the order of use
TemplateVariants == <<<<"t", "e", "s", "t", "-", "o", "n", "e">>, <<"T", "E", "S", "T", "_", "O", "N", "E">>, <<"T", "e", "s", "t", "-", "O", "n", "e">>, <<"T", "E", "S", "T", "-", "O", "N", "E">>>>

\* the same four forms of each target name, written out
TargetVariants(t) ==
  CASE t = <<"b", "i", "l", "l", "i", "n", "g", "-", "s", "v", "c">> -> <<<<"b", "i", "l", "l", "i", "n", "g", "-", "s", "v", "c">>, <<"B", "I", "L", "L", "I", "N", "G", "_", "S", "V", "C">>, <<"B", "i", "l", "l", "i", "n", "g", "-", "S", "v", "c">>, <<"B", "I", "L", "L", "I", "N", "G", "-", "S", "V", "C">>>>
    [] t = <<"e">> -> <<<<"e">>, <<"E">>, <<"E">>, <<"E">>>>
    [] t = <<"T", "e", "s", "t", "-", "O", "n", "e", "-", "2">> -> <<<<"t", "e", "s", "t", "-", "o", "n", "e", "-", "2">>, <<"T", "E", "S", "T", "_", "O", "N", "E", "_", "2">>, <<"T", "e", "s", "t", "-", "O", "n", "e", "-", "2">>, <<"T", "E", "S", "T", "-", "O", "N", "E", "-", "2">>>>

\* every occurrence of v in s replaced by r (occurrences of v cannot overlap)
ReplaceOccurrences(v, r, s) ==
  LET starts == {i \in 1..Len(s) : MatchAt(v, s, i)}
      piece(i) == IF i \in starts THEN r
                  ELSE IF \E j \in starts : j < i /\ i < j + Len(v) THEN <<>>
                  ELSE <<s[i]>>
  IN Concat([i \in 1..Len(s) |-> piece(i)])

ExpectedRewrite(s, t) ==
  LET v == TemplateVariants
      n == TargetVariants(t)
  IN ReplaceOccurrences(v[4], n[4],
       ReplaceOccurrences(v[3], n[3],
         ReplaceOccurrences(v[2], n[2],
           ReplaceOccurrences(v[1], n[1], s))))

HasVariant(s) ==
  \E k \in 1..4 : \E i \in 1..Len(s) : MatchAt(TemplateVariants[k], s, i)

\* C5: replace_variations(text, 'test-one', target) returns text with every
\* occurrence of the lower-case, the upper-case underscore, the title-case
\* and the upper-case hyphen form of the template identifier replaced, in
\* that order, by the same form of the target; TEST_ONE_PORT becomes
\* BILLING_SVC_PORT, Test-One Service becomes Billing-Svc Service, and a
\* text with none of the forms comes back unchanged.
C5_VariantsRewritten ==
  w_pc = "returned" =>
    /\ w_text = ExpectedRewrite(w_in, w_new)
    /\ (w_in = <<"T", "E", "S", "T", "_", "O", "N", "E", "_", "P", "O", "R", "T">> /\ w_new = <<"b", "i", "l", "l", "i", "n", "g", "-", "s", "v", "c">>) => w_text = <<"B", "I", "L", "L", "I", "N", "G", "_", "S", "V", "C", "_", "P", "O", "R", "T">>
    /\ (w_in = <<"T", "e", "s", "t", "-", "O", "n", "e", " ", "S", "e", "r", "v", "i", "c", "e">> /\ w_new = <<"b", "i", "l", "l", "i", "n", "g", "-", "s", "v", "c">>) => w_text = <<"B", "i", "l", "l", "i", "n", "g", "-", "S", "v", "c", " ", "S", "e", "r", "v", "i", "c", "e">>
    /\ ~HasVariant(w_in) => w_text = w_in

C5_Witness ==
  /\ w_pc = "returned"
  /\ w_in = <<"T", "E", "S", "T", "_", "O", "N", "E", "_", "P", "O", "R", "T">>
  /\ w_new = <<"b", "i", "l", "l", "i", "n", "g", "-", "s", "v", "c">>
  /\ w_text = <<"B", "I", "L", "L", "I", "N", "G", "_", "S", "V", "C", "_", "P", "O", "R", "T">>

\* C6: generate_app, given a template with its entry and base configuration
\* file, ends without failing having written the entry file, the base
\* configuration file and the overlay of exactly the requested environments
\* the template has an overlay for, each rewritten for the application; the
\* other requested environments are skipped with a notice, in request order.
C6_OverlaysForExistingOnly ==
  (r_pc = "done" /\ r_err # "usage" /\ baseDir /\ {MainPy, ValuesYaml} \subseteq tmpl) =>
    /\ r_exit = 0
    /\ r_written = {MainPy, ValuesYaml}
                     \cup {Overlay(e) : e \in {x \in Range(r_envs) : Overlay(x) \in tmpl}}
    /\ r_notices = SelectSeq(r_envs, LAMBDA e : Overlay(e) \notin tmpl)
    /\ \A n \in r_written :
         [name |-> n, content |-> ExpectedRewrite(TemplateContent(n), r_app)] \in tgt
    /\ \A f \in tgt : f.name \in r_written \/ f.content = StaleContent

C6_Witness ==
  /\ r_pc = "done"
  /\ r_exit = 0
  /\ r_envs = <<"dev", "staging">>
  /\ Overlay("dev") \in tmpl
  /\ Overlay("staging") \notin tmpl
  /\ r_notices = <<"staging">>
  /\ {f.name : f \in tgt} = {MainPy, ValuesYaml, Overlay("dev")}

\* C12: without the template directory generate_app fails at once with the
\* template-missing error and leaves the file system as it was: no target
\* directory is created and no file is written.
C12_TemplateMissingFails ==
  [][(r_pc = "check" /\ ~baseDir) =>
       /\ r_pc' = "done"
       /\ r_err' = "FileNotFoundError"
       /\ r_exit' = 1
       /\ tgtExists' = tgtExists
       /\ tgt' = tgt
       /\ r_written' = {}]_vars

C12_Witness ==
  /\ r_pc = "done"
  /\ ~baseDir
  /\ r_err = "FileNotFoundError"
  /\ ~tgtExists
  /\ tgt = {}
  /\ r_written = {}

\* ---------------------------------------------- the loop taken on its own
LoopPcs ==
  {"resolve", "render", "commit", "mktemp", "clone", "render_infra", "commit_infra", "pr"}

\* the run has left the loop: it is at the comment, or it ended there
Issued(kind) == \E i \in 1..Len(events) : events[i] = kind

AfterLoop ==
  \/ pc = "comment"
  \/ /\ pc = "done"
     /\ (exitStatus = 0 \/ failure = "RuntimeError" \/ Issued("comment"))

\* the run ended while an application was being processed
FailedInLoop == pc = "done" /\ ~AfterLoop

InfraTouched == Issued("clone") \/ infra_branches # {} \/ infra_prs # <<>>

C13_InfraNeedsCredential ==
  /\ \A i \in 2..Len(events) : events[i] # "credential"
  /\ InfraTouched =>
       /\ GH_token # ""
       /\ events[1] = "credential"
  /\ (GH_token = "" /\ pc = "done") =>
       /\ exitStatus # 0
       /\ ~InfraTouched
  /\ GH_token = "" => pc \notin {"clone", "render_infra", "commit_infra", "pr", "comment"}

C13_Witness ==
  /\ pc = "done"
  /\ GH_token = ""
  /\ failure = "MissingToken"
  /\ exitStatus = 1
  /\ Count("push") = 1
  /\ ~InfraTouched

\* C14: created_prs holds one (infra repository, reference) pair for each
\* application processed to the end, in the order of new_app_names, and no
\* other; each pair stands for a pushed branch and an opened pull request;
\* the comment is posted only with a pair for every new application; a
\* failure inside the loop ends the run with a non-zero status and no
\* comment, and the pull requests opened before it remain.
C14_CreatedPrsPerCompletedApp ==
  /\ Len(created_prs) = (IF AfterLoop THEN Len(new_app_names) ELSE app_idx - 1)
  /\ Len(infra_prs) = Len(created_prs)
  /\ \A i \in 1..Len(created_prs) :
       /\ created_prs[i].repo = "infra"
       /\ created_prs[i].pr[1] = new_app_names[i]
       /\ infra_prs[i][2] = new_app_names[i]
       /\ infra_prs[i] \in infra_branches
  /\ Count("pr create") \in {Len(created_prs), Len(created_prs) + 1}
  /\ Issued("comment") => Len(created_prs) = Len(new_app_names)
  /\ FailedInLoop =>
       /\ exitStatus # 0
       /\ ~Issued("comment")
       /\ Len(infra_prs) = app_idx - 1

C14_Witness ==
  /\ FailedInLoop
  /\ app_idx = 2
  /\ Len(created_prs) = 1
  /\ created_prs[1].pr[1] = new_app_names[1]
  /\ Len(infra_prs) = 1
  /\ Count("pr create") = 2
  /\ ~Issued("comment")

====
